---- MODULE Spec2Model ----
(***************************************************************************)
(* The streaming chat client of medimind (frontend, AppEnhanced):          *)
(* sendMessage opens one request per accepted submission, reads the        *)
(* response body chunk by chunk, splits each decoded chunk into lines,     *)
(* classifies every "data:" line and folds it into the last message of     *)
(* the conversation.                                                       *)
(*                                                                         *)
(* Text is a sequence of characters; a character is a one-character        *)
(* string, or the name of a code point ("U+1F4C4") for the non-ASCII       *)
(* symbols the client writes.  A byte of the response body is the ASCII    *)
(* character it encodes, or "xC3" / "xA9" (the two bytes of U+00E9).       *)
(* A JavaScript object is a record that holds exactly the fields the       *)
(* object has.                                                             *)
(***************************************************************************)
EXTENDS Integers, Sequences, FiniteSets, TLC

VARIABLES messages, loading, reqs, wire

vars == <<messages, loading, reqs, wire>>

---------------------------------------------------------------------------
(* Bounds of the model. *)

\* accepted submissions (requests opened) in one run
MaxTurns == 2
\* chunks read from response bodies in one run, all requests together
MaxReads == 2

---------------------------------------------------------------------------
(* String literals of the source. *)

S_data ==
    <<"d", "a", "t", "a", ":">>

S_DONE ==
    <<"[", "D", "O", "N", "E", "]">>

S_chunking ==
    <<"c", "h", "u", "n", "k", "i", "n", "g">>

S_processing ==
    <<"p", "r", "o", "c", "e", "s", "s", "i", "n", "g">>

S_chunk ==
    <<"c", "h", "u", "n", "k">>

S_combining ==
    <<"c", "o", "m", "b", "i", "n", "i", "n", "g">>

S_finalizing ==
    <<"f", "i", "n", "a", "l", "i", "z", "i", "n", "g">>

S_error ==
    <<"e", "r", "r", "o", "r">>

B_page ==
    <<"U+1F4C4", " ">>

B_large ==
    <<"U+1F4C4", " ", "D", "o", "c", "u", "m", "e", "n", "t", " ", "i", "s", " ", "l", "a",
       "r", "g", "e", ".", " ", "P", "r", "o", "c", "e", "s", "s", "i", "n", "g", " ", "i",
       "n", " ", "c", "h", "u", "n", "k", "s", ".", ".", ".", "\n", "U+1F504", " ">>

B_memo ==
    <<"U+1F4DD", " ">>

B_summarizing ==
    <<"U+1F4DD", " ", "S", "u", "m", "m", "a", "r", "i", "z", "i", "n", "g", " ", "c", "h",
       "u", "n", "k">>

B_link ==
    <<"U+1F517", " ">>

B_sparkle ==
    <<"U+2728", " ">>

B_warn ==
    <<"U+26A0", "U+FE0F", " ">>

S_429 ==
    <<"4", "2", "9">>

S_RateLimit ==
    <<"R", "a", "t", "e", " ", "l", "i", "m", "i", "t">>

S_rateLimit ==
    <<"r", "a", "t", "e", " ", "l", "i", "m", "i", "t">>

S_ErrorCode429 ==
    <<"E", "r", "r", "o", "r", " ", "c", "o", "d", "e", ":", " ", "4", "2", "9">>

RateLimitLong ==
    <<"U+26A0", "U+FE0F", " ", "R", "a", "t", "e", " ", "l", "i", "m", "i", "t", " ", "r", "e",
       "a", "c", "h", "e", "d", ".", " ", "T", "h", "e", " ", "A", "P", "I", " ", "h", "a",
       "s", " ", "e", "x", "c", "e", "e", "d", "e", "d", " ", "i", "t", "s", " ", "t", "o",
       "k", "e", "n", " ", "l", "i", "m", "i", "t", ".", " ", "P", "l", "e", "a", "s", "e",
       " ", "w", "a", "i", "t", " ", "3", "0", "-", "6", "0", " ", "s", "e", "c", "o", "n",
       "d", "s", " ", "a", "n", "d", " ", "t", "r", "y", " ", "a", "g", "a", "i", "n", ".">>

RateLimitShort ==
    <<"U+26A0", "U+FE0F", " ", "R", "a", "t", "e", " ", "l", "i", "m", "i", "t", " ", "r", "e",
       "a", "c", "h", "e", "d", ".", " ", "P", "l", "e", "a", "s", "e", " ", "w", "a", "i",
       "t", " ", "3", "0", "-", "6", "0", " ", "s", "e", "c", "o", "n", "d", "s", " ", "a",
       "n", "d", " ", "t", "r", "y", " ", "a", "g", "a", "i", "n", ".">>

ConnectError ==
    <<"E", "r", "r", "o", "r", " ", "c", "o", "n", "n", "e", "c", "t", "i", "n", "g", " ", "t",
       "o", " ", "b", "a", "c", "k", "e", "n", "d", ".", " ", "M", "a", "k", "e", " ", "s",
       "u", "r", "e", " ", "t", "h", "e", " ", "s", "e", "r", "v", "e", "r", " ", "i", "s",
       " ", "r", "u", "n", "n", "i", "n", "g", ".">>

---------------------------------------------------------------------------
(* String operations of JavaScript, on sequences of characters. *)

\* s.startsWith(p)
StartsWith(s, p) ==
    /\ Len(p) <= Len(s)
    /\ SubSeq(s, 1, Len(p)) = p

\* s.indexOf(p), 1-based; 0 when p does not occur in s
IndexOf(s, p) ==
    LET hits == {i \in 1..(Len(s) - Len(p) + 1) : SubSeq(s, i, i + Len(p) - 1) = p}
    IN  IF hits = {} THEN 0 ELSE CHOOSE i \in hits : \A j \in hits : i <= j

\* s.includes(p)
Includes(s, p) ==
    \E i \in 1..(Len(s) - Len(p) + 1) : SubSeq(s, i, i + Len(p) - 1) = p

\* s.replace(p, r) with a string pattern: the first occurrence only
Replace(s, p, r) ==
    LET i == IndexOf(s, p)
    IN  IF i = 0 THEN s
        ELSE SubSeq(s, 1, i - 1) \o r \o SubSeq(s, i + Len(p), Len(s))

WhiteSpace == {" ", "\n", "\t", "\r"}

\* s.trim()
Trim(s) ==
    LET keep == {i \in 1..Len(s) : s[i] \notin WhiteSpace}
    IN  IF keep = {} THEN <<>>
        ELSE SubSeq(s, CHOOSE i \in keep : \A j \in keep : i <= j,
                       CHOOSE i \in keep : \A j \in keep : i >= j)

RECURSIVE Split(_, _)
\* s.split(sep) for a one-character separator: always at least one piece
Split(s, sep) ==
    LET cuts == {i \in 1..Len(s) : s[i] = sep}
    IN  IF cuts = {} THEN <<s>>
        ELSE LET i == CHOOSE c \in cuts : \A d \in cuts : c <= d
             IN  <<SubSeq(s, 1, i - 1)>> \o Split(SubSeq(s, i + 1, Len(s)), sep)

RECURSIVE Join(_, _)
\* pieces.join(sep)
Join(pieces, sep) ==
    IF Len(pieces) = 0 THEN <<>>
    ELSE IF Len(pieces) = 1 THEN pieces[1]
    ELSE pieces[1] \o <<sep>> \o Join(Tail(pieces), sep)

---------------------------------------------------------------------------
(* TextDecoder: decoder.decode(value, { stream: true }).  The decoder is   *)
(* created once per response and keeps the bytes of an incomplete          *)
(* character between two calls.                                            *)

LeadBytes == {"xC3"}

ContBytes == {"xA9"}

\* the character a complete two-byte sequence encodes
CodePoint(bytes) ==
    IF bytes = <<"xC3", "xA9">> THEN "U+00E9" ELSE "U+FFFD"

\* the least element of a non-empty set of indices
MinOf(S) ==
    CHOOSE i \in S : \A j \in S : i <= j

RECURSIVE Utf8(_, _, _)
\* the UTF-8 decoder on the bytes of one call: ASCII bytes are copied up to the
\* next byte that is not ASCII; a lead byte waits for its continuation byte, and
\* a byte sequence that is no character yields U+FFFD
Utf8(pending, bytes, out) ==
    IF bytes = <<>> THEN [text |-> out, pending |-> pending]
    ELSE LET b == Head(bytes)
             special == {i \in 1..Len(bytes) : bytes[i] \in LeadBytes \cup ContBytes}
         IN  IF pending # <<>>
             THEN IF b \in ContBytes
                  THEN Utf8(<<>>, Tail(bytes), Append(out, CodePoint(Append(pending, b))))
                  ELSE Utf8(<<>>, bytes, Append(out, "U+FFFD"))
             ELSE IF b \in LeadBytes THEN Utf8(<<b>>, Tail(bytes), out)
             ELSE IF b \in ContBytes THEN Utf8(<<>>, Tail(bytes), Append(out, "U+FFFD"))
             ELSE IF special = {} THEN [text |-> out \o bytes, pending |-> <<>>]
             ELSE Utf8(<<>>, SubSeq(bytes, MinOf(special), Len(bytes)),
                       out \o SubSeq(bytes, 1, MinOf(special) - 1))

\* decoder.decode(value, { stream: true }): the decoded text and the bytes kept
Decode(pending, value) ==
    Utf8(pending, value, <<>>)

RECURSIVE Encode(_)
\* the UTF-8 bytes of a text (what the backend writes to the response body)
Encode(text) ==
    LET wide == {i \in 1..Len(text) : text[i] = "U+00E9"}
    IN  IF wide = {} THEN text
        ELSE SubSeq(text, 1, MinOf(wide) - 1) \o <<"xC3", "xA9">>
             \o Encode(SubSeq(text, MinOf(wide) + 1, Len(text)))

---------------------------------------------------------------------------
(* The payloads of the event stream and JSON.parse.                        *)

Quote(s) ==
    <<"\"">> \o s \o <<"\"">>

Digit(n) ==
    <<"0", "1", "2", "3", "4", "5", "6", "7", "8", "9">>[n + 1]

JsonField(key, value) ==
    Quote(key) \o <<":">> \o value

RECURSIVE QuoteAll(_)
QuoteAll(names) ==
    IF names = <<>> THEN <<>> ELSE <<Quote(Head(names))>> \o QuoteAll(Tail(names))

\* the JSON text of the object under "final"
SerFinal(f) ==
    <<"{">>
    \o Join(  <<JsonField(<<"a", "n", "s", "w", "e", "r">>, Quote(f.answer))>>
           \o (IF "files_analyzed" \in DOMAIN f
               THEN <<JsonField(<<"f", "i", "l", "e", "s", "_", "a", "n", "a", "l", "y", "z", "e", "d">>,
                                <<"[">> \o Join(QuoteAll(f.files_analyzed), ",") \o <<"]">>)>>
               ELSE <<>>)
           \o (IF "file_count" \in DOMAIN f
               THEN <<JsonField(<<"f", "i", "l", "e", "_", "c", "o", "u", "n", "t">>,
                                <<Digit(f.file_count)>>)>>
               ELSE <<>>), ",")
    \o <<"}">>

\* the JSON text of a payload object (JSON.stringify on the backend's side)
Ser(v) ==
    <<"{">>
    \o Join(  (IF "error" \in DOMAIN v
               THEN <<JsonField(S_error, Quote(v.error))>> ELSE <<>>)
           \o (IF "status" \in DOMAIN v
               THEN <<JsonField(<<"s", "t", "a", "t", "u", "s">>, Quote(v.status))>> ELSE <<>>)
           \o (IF "message" \in DOMAIN v
               THEN <<JsonField(<<"m", "e", "s", "s", "a", "g", "e">>, Quote(v.message))>> ELSE <<>>)
           \o (IF "token" \in DOMAIN v
               THEN <<JsonField(<<"t", "o", "k", "e", "n">>, Quote(v.token))>> ELSE <<>>)
           \o (IF "final" \in DOMAIN v
               THEN <<JsonField(<<"f", "i", "n", "a", "l">>, SerFinal(v.final))>> ELSE <<>>)
           \o (IF "note" \in DOMAIN v
               THEN <<JsonField(<<"n", "o", "t", "e">>, Quote(v.note))>> ELSE <<>>), ",")
    \o <<"}">>

\* The payload objects of the model.
DocToken == [token |-> <<"h", "i">>]

DocStatus == [status |-> S_chunking, message |-> <<"m">>]

DocFinal ==
    [final |-> [answer |-> <<"o", "k">>,
                files_analyzed |-> << <<"a">> >>,
                file_count |-> 1]]

DocError == [error |-> <<"n", "o">>]

\* a token whose text is one two-byte character
DocAccent == [token |-> <<"U+00E9">>]

\* a token whose text occurs in the status banners below
DocTokenM == [token |-> <<"m">>]

\* a token whose text holds a banner marker character; a character other than
\* U+00E9 travels through the encoder and the decoder as one unit
DocTokenMemo == [token |-> <<"U+1F4DD">>]

\* one status payload for every phase the client knows
DocProcessing == [status |-> S_processing, message |-> <<"m">>]

DocChunk == [status |-> S_chunk, message |-> <<"m">>]

DocCombining == [status |-> S_combining, message |-> <<"m">>]

DocFinalizing == [status |-> S_finalizing, message |-> <<"m">>]

DocStatusError == [status |-> S_error, message |-> <<"m">>]

\* a final payload that carries the answer only
DocFinalBare == [final |-> [answer |-> <<"o", "k">>]]

DocError429 == [error |-> S_ErrorCode429]

\* payloads with more than one of the fields error, status, token, final
DocErrorToken == [error |-> <<"n", "o">>, token |-> <<"h", "i">>]

DocStatusToken == [status |-> S_chunking, message |-> <<"m">>, token |-> <<"h", "i">>]

DocTokenFinal == [token |-> <<"h", "i">>, final |-> [answer |-> <<"o", "k">>]]

StatusDocs ==
    {DocStatus, DocProcessing, DocChunk, DocCombining, DocFinalizing, DocStatusError}

TokenDocs == {DocToken, DocTokenM, DocTokenMemo}

FinalDocs == {DocFinal, DocFinalBare}

ErrorDocs == {DocError, DocError429}

MultiDocs == {DocErrorToken, DocStatusToken, DocTokenFinal}

\* the payloads of the two worked scenarios
DocSplitting ==
    [status |-> S_chunking,
     message |-> <<"S", "p", "l", "i", "t", "t", "i", "n", "g", " ", "d", "o", "c", "u", "m", "e", "n", "t">>]

DocResult == [token |-> <<"R", "e", "s", "u", "l", "t", ":", " ">>]

DocNormal == [token |-> <<"n", "o", "r", "m", "a", "l", ".">>]

DocFinalResult ==
    [final |-> [answer |-> <<"R", "e", "s", "u", "l", "t", ":", " ", "n", "o", "r", "m", "a", "l", ".">>,
                files_analyzed |-> << <<"a", ".", "t", "x", "t">> >>,
                file_count |-> 1]]

DocPar == [token |-> <<"p", "a", "r">>]

ScenarioDocs ==
    {DocSplitting, DocResult, DocNormal, DocFinalResult, DocPar}

\* an error payload with another rate-limit indicator
DocErrorRate == [error |-> S_RateLimit]

\* a payload with none of the fields error, status, token, final
DocNote == [note |-> <<"x">>]

\* progress notes in the wording the client looks for
DocProgress1 ==
    [status |-> S_chunk,
     message |-> <<"S", "u", "m", "m", "a", "r", "i", "z", "i", "n", "g", " ", "c", "h",
                   "u", "n", "k", " ", "1">>]

DocProgress2 ==
    [status |-> S_chunk,
     message |-> <<"S", "u", "m", "m", "a", "r", "i", "z", "i", "n", "g", " ", "c", "h",
                   "u", "n", "k", " ", "2">>]

\* a status payload of a phase the client does not know
DocStatusOther == [status |-> <<"x">>, message |-> <<"m">>]

AllStatusDocs ==
    StatusDocs \cup {DocProgress1, DocProgress2, DocStatusOther}

Docs ==
    {DocAccent} \cup AllStatusDocs \cup TokenDocs \cup FinalDocs \cup ErrorDocs \cup MultiDocs
    \cup ScenarioDocs \cup {DocErrorRate, DocNote}

\* what JSON.parse does when the text is no JSON document
SyntaxError == [throws |-> "SyntaxError"]

\* the JSON texts of the model, each with the object it denotes
JsonTexts ==
    [text \in {Ser(v) : v \in Docs} |-> CHOOSE v \in Docs : Ser(v) = text]

\* JSON.parse(payload): the object whose JSON text the payload is; any other
\* text of the model (a fragment of a document, "not-json") is no JSON and throws
JSONparse(payload) ==
    IF payload \in DOMAIN JsonTexts THEN JsonTexts[payload] ELSE SyntaxError

---------------------------------------------------------------------------
(* The conversation: setMessages updaters and the handling of one line.    *)

\* { ...a, ...b }, and the assignment of the fields of b to the object a
Spread(a, b) ==
    [f \in (DOMAIN a) \cup (DOMAIN b) |-> IF f \in DOMAIN b THEN b[f] ELSE a[f]]

\* updated[updated.length - 1]
LastOf(ms) ==
    ms[Len(ms)]

\* the same assignment one index too low: updated[updated.length - 2] = m
SetLastButOne(ms, m) ==
    [ms EXCEPT ![Len(ms) - 1] = m]

\* updated[updated.length - 1] = m
SetLast(ms, m) ==
    [ms EXCEPT ![Len(ms)] = m]

\* obj.field || '' for a string field
OrEmpty(obj, field) ==
    IF field \in DOMAIN obj THEN obj[field] ELSE <<>>

\* the message shown for an error payload
ErrorMessage(err) ==
    IF Includes(err, S_429) \/ Includes(err, S_RateLimit) \/ Includes(err, S_rateLimit)
    THEN RateLimitLong
    ELSE IF Includes(err, S_ErrorCode429) THEN RateLimitShort
    ELSE err

\* an error handler that adds the error message to the text assembled so far
ErrorUpdateAppend(ms, parsed) ==
    SetLast(ms, [role |-> "assistant",
                 answer |-> OrEmpty(LastOf(ms), "answer") \o ErrorMessage(parsed.error),
                 streaming |-> FALSE])

\* an error handler that keeps the other fields of the message
ErrorUpdateSpread(ms, parsed) ==
    SetLast(ms, Spread(LastOf(ms), [answer |-> ErrorMessage(parsed.error),
                                    streaming |-> FALSE]))

\* the updater of the error handler
ErrorUpdate(ms, parsed) ==
    SetLast(ms, [role |-> "assistant",
                 answer |-> ErrorMessage(parsed.error),
                 streaming |-> FALSE])

\* l => !l.includes(<memo> + ' Summarizing chunk')
NotProgressLine(l) ==
    ~Includes(l, B_summarizing)

\* a status handler in which every phase starts the text afresh
StatusAnswerFresh(last, parsed) ==
    LET statusMsg == OrEmpty(parsed, "message")
    IN  IF parsed.status = S_chunking
        THEN [answer |-> B_page \o statusMsg \o <<"\n">>]
        ELSE IF parsed.status = S_processing
        THEN [answer |-> B_large \o statusMsg \o <<"\n">>]
        ELSE IF parsed.status = S_chunk
        THEN [answer |-> B_memo \o statusMsg \o <<"\n">>]
        ELSE IF parsed.status = S_combining
        THEN [answer |-> B_link \o statusMsg \o <<"\n">>]
        ELSE IF parsed.status = S_finalizing
        THEN [answer |-> B_sparkle \o statusMsg \o <<"\n">>]
        ELSE IF parsed.status = S_error
        THEN [answer |-> B_warn \o statusMsg \o <<"\n">>]
        ELSE [streaming |-> TRUE]

\* the answer a status payload writes; the answer is not assigned for an unknown status
StatusAnswer(last, parsed) ==
    LET statusMsg     == OrEmpty(parsed, "message")
        currentAnswer == OrEmpty(last, "answer")
        progressMsg   == B_memo \o statusMsg
    IN  IF parsed.status = S_chunking
        THEN [answer |-> B_page \o statusMsg \o <<"\n">>]
        ELSE IF parsed.status = S_processing
        THEN [answer |-> B_large \o statusMsg \o <<"\n">>]
        ELSE IF parsed.status = S_chunk
        THEN IF ~Includes(currentAnswer, B_summarizing)
             THEN [answer |-> currentAnswer \o progressMsg \o <<"\n">>]
             ELSE [answer |-> Join(Append(SelectSeq(Split(currentAnswer, "\n"), NotProgressLine),
                                          progressMsg), "\n") \o <<"\n">>]
        ELSE IF parsed.status = S_combining
        THEN [answer |-> currentAnswer \o B_link \o statusMsg \o <<"\n">>]
        ELSE IF parsed.status = S_finalizing
        THEN [answer |-> currentAnswer \o B_sparkle \o statusMsg \o <<"\n">>]
        ELSE IF parsed.status = S_error
        THEN [answer |-> currentAnswer \o B_warn \o statusMsg \o <<"\n">>]
        ELSE [streaming |-> TRUE]

\* a status handler for which the phase error ends the answer
StatusUpdateErrorEnds(ms, parsed) ==
    IF Len(ms) > 0
    THEN SetLast(ms, Spread(Spread(LastOf(ms), StatusAnswer(LastOf(ms), parsed)),
                            [streaming |-> parsed.status # S_error]))
    ELSE ms

\* the updater of the status handler
StatusUpdate(ms, parsed) ==
    IF Len(ms) > 0
    THEN SetLast(ms, Spread(Spread(LastOf(ms), StatusAnswer(LastOf(ms), parsed)),
                            [streaming |-> TRUE]))
    ELSE ms

\* a token handler that shows the newest token only
TokenAnswerReplace(last, parsed) ==
    parsed.token

\* a token handler that appends in every case
TokenAnswerAppend(last, parsed) ==
    OrEmpty(last, "answer") \o parsed.token

\* the answer a token payload writes
TokenAnswer(last, parsed) ==
    LET currentAnswer == OrEmpty(last, "answer")
    IN  IF \/ Includes(currentAnswer, <<"U+1F4C4">>)
           \/ Includes(currentAnswer, <<"U+1F504">>)
           \/ Includes(currentAnswer, <<"U+1F4DD">>)
        THEN IF ~Includes(currentAnswer, Trim(parsed.token))
             THEN parsed.token
             ELSE last.answer \o parsed.token
        ELSE last.answer \o parsed.token

\* the updater of the token handler
TokenUpdate(ms, parsed) ==
    IF Len(ms) > 0
    THEN SetLast(ms, Spread(LastOf(ms), [answer |-> TokenAnswer(LastOf(ms), parsed),
                                         streaming |-> TRUE]))
    ELSE ms

\* a final handler that adds the final answer to the text assembled so far
FinalUpdateAppend(ms, parsed) ==
    SetLast(ms, Spread(LastOf(ms),
                       [answer |-> OrEmpty(LastOf(ms), "answer") \o parsed.final.answer,
                        filesAnalyzed |-> OrEmpty(parsed.final, "files_analyzed"),
                        fileCount |-> IF "file_count" \in DOMAIN parsed.final
                                      THEN parsed.final.file_count ELSE 0,
                        streaming |-> FALSE]))

\* the updater of the final handler
FinalUpdate(ms, parsed) ==
    SetLast(ms, Spread(LastOf(ms),
                       [answer |-> parsed.final.answer,
                        filesAnalyzed |-> OrEmpty(parsed.final, "files_analyzed"),
                        fileCount |-> IF "file_count" \in DOMAIN parsed.final
                                      THEN parsed.final.file_count ELSE 0,
                        streaming |-> FALSE]))

\* if (parsed.x) for a string field: present and not empty
Truthy(parsed, field) ==
    /\ field \in DOMAIN parsed
    /\ parsed[field] # <<>>

---------------------------------------------------------------------------
(* The body of the read loop.  st holds what the loop reads and writes:    *)
(* messages and loading (React state, updates applied in call order),      *)
(* hasError (local to the call of sendMessage), brk (the break of the      *)
(* line loop) and events, the record of the lines classified so far by     *)
(* this call (kept for the properties, never read by the program).         *)

EvDone == [done |-> TRUE]

EvMalformed == [malformed |-> TRUE]

\* the if-blocks on the parsed payload, in source order
HandleParsed(st, parsed) ==
    IF Truthy(parsed, "error")
    THEN [st EXCEPT !.hasError = TRUE,
                    !.messages = ErrorUpdate(@, parsed),
                    !.loading = FALSE,
                    !.brk = TRUE]
    ELSE LET s1 == IF Truthy(parsed, "status")
                   THEN [st EXCEPT !.messages = StatusUpdate(@, parsed)] ELSE st
             s2 == IF Truthy(parsed, "token")
                   THEN [s1 EXCEPT !.messages = TokenUpdate(@, parsed)] ELSE s1
         IN  IF "final" \in DOMAIN parsed
             THEN [s2 EXCEPT !.messages = FinalUpdate(@, parsed), !.loading = FALSE]
             ELSE s2

\* HandleLine for which a line without the prefix ends the chunk
HandleLineStrict(st, line) ==
    IF ~StartsWith(line, S_data) THEN [st EXCEPT !.brk = line # <<>>]
    ELSE LET payload == Trim(Replace(line, S_data, <<>>))
         IN  IF payload = <<>> \/ payload = S_DONE
             THEN [st EXCEPT !.loading = IF st.hasError THEN @ ELSE FALSE,
                             !.events = Append(@, EvDone)]
             ELSE LET parsed == JSONparse(payload)
                  IN  IF parsed = SyntaxError
                      THEN [st EXCEPT !.events = Append(@, EvMalformed)]
                      ELSE HandleParsed([st EXCEPT !.events = Append(@, parsed)], parsed)

\* HandleLine without the inner try, as the earlier variants of the client have
\* it: the SyntaxError of JSON.parse reaches the catch block of sendMessage
HandleLineNoTry(st, line) ==
    IF ~StartsWith(line, S_data) THEN st
    ELSE LET payload == Trim(Replace(line, S_data, <<>>))
         IN  IF payload = <<>> \/ payload = S_DONE
             THEN [st EXCEPT !.loading = IF st.hasError THEN @ ELSE FALSE,
                             !.events = Append(@, EvDone)]
             ELSE LET parsed == JSONparse(payload)
                  IN  IF parsed = SyntaxError
                      THEN [st EXCEPT !.events = Append(@, EvMalformed),
                                      !.messages = SetLast(@, [role |-> "assistant",
                                                               answer |-> ConnectError,
                                                               streaming |-> FALSE]),
                                      !.loading = FALSE,
                                      !.brk = TRUE]
                      ELSE HandleParsed([st EXCEPT !.events = Append(@, parsed)], parsed)

\* one iteration of: for (const line of lines)
HandleLine(st, line) ==
    IF ~StartsWith(line, S_data) THEN st
    ELSE LET payload == Trim(Replace(line, S_data, <<>>))
         IN  IF payload = <<>> \/ payload = S_DONE
             THEN [st EXCEPT !.loading = IF st.hasError THEN @ ELSE FALSE,
                             !.events = Append(@, EvDone)]
             ELSE LET parsed == JSONparse(payload)
                  IN  IF parsed = SyntaxError
                      THEN [st EXCEPT !.events = Append(@, EvMalformed)]
                      ELSE HandleParsed([st EXCEPT !.events = Append(@, parsed)], parsed)

RECURSIVE ProcessLines(_, _)
\* for (const line of lines) { ... }, left by break
ProcessLines(st, lines) ==
    IF lines = <<>> \/ st.brk THEN st
    ELSE ProcessLines(HandleLine(st, Head(lines)), Tail(lines))

\* one pass of the while loop on a chunk: decode, split, handle every line
ProcessChunk(ms, ld, req, value) ==
    LET dec == Decode(req.pending, value)
        st  == ProcessLines([messages |-> ms, loading |-> ld, hasError |-> req.hasError,
                             events |-> req.events, brk |-> FALSE],
                            Split(dec.text, "\n"))
    IN  [messages |-> st.messages,
         loading  |-> st.loading,
         req      |-> [req EXCEPT !.hasError = st.hasError,
                                  !.pending = dec.pending,
                                  !.events = st.events,
                                  !.reads = @ + 1]]

\* the catch block of the intake variant of the client: the text is shown in
\* a new message
CatchUpdateAppend(ms) ==
    Append(ms, [role |-> "assistant", answer |-> ConnectError, streaming |-> FALSE])

\* the updater of the catch block
CatchUpdate(ms) ==
    SetLast(ms, [role |-> "assistant", answer |-> ConnectError, streaming |-> FALSE])

---------------------------------------------------------------------------
(* The state machine.  reqs[r] is the r-th call of sendMessage that passed *)
(* the guard: pc is the await it is suspended at ("fetch", "read") or how  *)
(* it returned ("closed": read reported done, "failed": the catch block    *)
(* ran); its placeholder is message 2r.                                    *)

\* what the user may have typed when sendMessage runs
Inputs == {<<>>, <<" ">>, <<"q">>}

T_notjson ==
    <<"n", "o", "t", "-", "j", "s", "o", "n">>

\* one event as the backend writes it: a data: line and a blank line
Frame(payload) ==
    Encode(S_data \o <<" ">> \o payload \o <<"\n", "\n">>)

\* the chunks a read may deliver
Chunks ==
    { Frame(Ser(DocToken)), Frame(Ser(DocStatus)), Frame(Ser(DocFinal)),
      Frame(Ser(DocError)), Frame(S_DONE), Frame(T_notjson),
      Frame(Ser(DocFinal)) \o Frame(S_DONE),
      Frame(Ser(DocError)) \o Frame(Ser(DocToken)) }

TotalReads ==
    LET RECURSIVE Sum(_)
        Sum(i) == IF i = 0 THEN 0 ELSE reqs[i].reads + Sum(i - 1)
    IN  Sum(Len(reqs))

\* the request record of a call of sendMessage that passed the guard
NewRequest(pc) ==
    [pc |-> pc, hasError |-> FALSE, pending |-> <<>>, reads |-> 0, events |-> <<>>]

\* a submission that appends the user message alone
SubmittedUserOnly(ms, q) ==
    Append(ms, [role |-> "user", content |-> q])

\* the two messages an accepted submission appends
Submitted(ms, q) ==
    ms \o << [role |-> "user", content |-> q],
             [role |-> "assistant", answer |-> <<>>, streaming |-> TRUE] >>

\* no response body is singled out: every read delivers any chunk of Chunks
NoWire == [body |-> <<>>, pos |-> 0]

Init ==
    /\ messages = <<>>
    /\ loading = FALSE
    /\ reqs = <<>>
    /\ wire = NoWire

\* sendMessage with a guard on the input only: if (!input.trim()) return;
SendMessageAnyTime(q) ==
    /\ Len(reqs) < MaxTurns
    /\ IF Trim(q) = <<>>
       THEN UNCHANGED <<messages, loading, reqs>>
       ELSE /\ loading' = TRUE
            /\ messages' = Submitted(messages, q)
            /\ reqs' = Append(reqs, NewRequest("fetch"))
    /\ UNCHANGED wire

\* sendMessage up to its first await (the fetch)
SendMessage(q) ==
    /\ Len(reqs) < MaxTurns
    /\ IF Trim(q) = <<>> \/ loading
       THEN UNCHANGED <<messages, loading, reqs>>
       ELSE /\ loading' = TRUE
            /\ messages' = Submitted(messages, q)
            /\ reqs' = Append(reqs, NewRequest("fetch"))
    /\ UNCHANGED wire

\* fetch resolves with res.ok: the reader and the decoder are created
FetchOk(r) ==
    /\ reqs[r].pc = "fetch"
    /\ reqs' = [reqs EXCEPT ![r].pc = "read"]
    /\ UNCHANGED <<messages, loading, wire>>

\* fetch rejects, or resolves with !res.ok and the handler throws: the catch block
FetchFail(r) ==
    /\ reqs[r].pc = "fetch"
    /\ messages' = CatchUpdate(messages)
    /\ loading' = FALSE
    /\ reqs' = [reqs EXCEPT ![r].pc = "failed"]
    /\ UNCHANGED wire

\* reader.read() resolves with a chunk
ReadChunk(r, value) ==
    /\ reqs[r].pc = "read"
    /\ LET out == ProcessChunk(messages, loading, reqs[r], value)
       IN  /\ messages' = out.messages
           /\ loading' = out.loading
           /\ reqs' = [reqs EXCEPT ![r] = out.req]

\* ReadDone as the earlier variants of the client have it: if (done) break;
ReadDoneNoClear(r) ==
    /\ reqs[r].pc = "read"
    /\ reqs' = [reqs EXCEPT ![r].pc = "closed"]
    /\ UNCHANGED <<messages, loading>>

\* reader.read() resolves with done
ReadDone(r) ==
    /\ reqs[r].pc = "read"
    /\ loading' = IF reqs[r].hasError THEN loading ELSE FALSE
    /\ reqs' = [reqs EXCEPT ![r].pc = "closed"]
    /\ UNCHANGED messages

\* reader.read() rejects (the connection breaks): the catch block
ReadFail(r) ==
    /\ reqs[r].pc = "read"
    /\ messages' = CatchUpdate(messages)
    /\ loading' = FALSE
    /\ reqs' = [reqs EXCEPT ![r].pc = "failed"]
    /\ UNCHANGED wire

\* a read of request r delivers one of the chunks of the model
Deliver(r) ==
    /\ TotalReads < MaxReads
    /\ \E value \in Chunks : ReadChunk(r, value)
    /\ UNCHANGED wire

\* the response body of request r ends
Close(r) ==
    /\ ReadDone(r)
    /\ UNCHANGED wire

Next ==
    \/ \E q \in Inputs : SendMessage(q)
    \/ \E r \in DOMAIN reqs : FetchOk(r)
    \/ \E r \in DOMAIN reqs : FetchFail(r)
    \/ \E r \in DOMAIN reqs : Deliver(r)
    \/ \E r \in DOMAIN reqs : Close(r)
    \/ \E r \in DOMAIN reqs : ReadFail(r)

Spec == Init /\ [][Next]_vars

---------------------------------------------------------------------------
(* One response body under every chunking.  The request has been accepted  *)
(* and its fetch has resolved; wire.body is the whole response body and    *)
(* wire.pos the number of its bytes already delivered.  Each read delivers *)
(* the next k bytes, for any k, and the body ends after its last byte.     *)

\* well-formed event streams
Bodies ==
    { Frame(Ser(DocToken)) \o Frame(S_DONE),
      Frame(Ser(DocAccent)) \o Frame(Ser(DocToken)),
      Frame(Ser(DocFinal)) }

InitChunk ==
    /\ messages = Submitted(<<>>, <<"q">>)
    /\ loading = TRUE
    /\ reqs = <<NewRequest("read")>>
    /\ \E body \in Bodies : wire = [body |-> body, pos |-> 0]

\* a read delivers the next k bytes of the body
DeliverBytes(k) ==
    /\ wire.pos + k <= Len(wire.body)
    /\ ReadChunk(1, SubSeq(wire.body, wire.pos + 1, wire.pos + k))
    /\ wire' = [wire EXCEPT !.pos = @ + k]

\* the body has been delivered whole: the next read reports done
CloseBody ==
    /\ wire.pos = Len(wire.body)
    /\ ReadDone(1)
    /\ UNCHANGED wire

NextChunk ==
    \/ \E k \in 1..Len(wire.body) : DeliverBytes(k)
    \/ CloseBody

SpecChunk == InitChunk /\ [][NextChunk]_vars

\* the same body delivered by a single read, then closed
OneChunk(body) ==
    ProcessChunk(Submitted(<<>>, <<"q">>), TRUE, NewRequest("read"), body)

---------------------------------------------------------------------------
(* The assembly of one answer: one request whose response is open, and     *)
(* every read delivers one whole event of any kind (or a malformed line,   *)
(* alone or ahead of a token).  This is the machine the rules on the text  *)
(* of the message are checked on.                                          *)

\* the number of reads of the response
MaxEvents == 3

TextChunks ==
    {Frame(Ser(d)) : d \in StatusDocs \cup TokenDocs \cup FinalDocs \cup ErrorDocs \cup MultiDocs}
    \cup {Frame(S_DONE), Frame(T_notjson), Frame(T_notjson) \o Frame(Ser(DocToken))}

InitText ==
    /\ messages = Submitted(<<>>, <<"q">>)
    /\ loading = TRUE
    /\ reqs = <<NewRequest("read")>>
    /\ wire = NoWire

\* a read delivers one of the chunks
DeliverText ==
    /\ reqs[1].reads < MaxEvents
    /\ \E value \in TextChunks : ReadChunk(1, value)
    /\ UNCHANGED wire

NextText ==
    DeliverText

SpecText == InitText /\ [][NextText]_vars

---------------------------------------------------------------------------
(* The progress notes of one answer: the same request, whose reads deliver *)
(* status events of every phase and wording, and a token or a final        *)
(* payload between them.                                                   *)

StatusChunks ==
    {Frame(Ser(d)) : d \in AllStatusDocs \cup {DocToken, DocFinal}}

\* a read delivers one of the chunks
DeliverStatus ==
    /\ reqs[1].reads < MaxEvents
    /\ \E value \in StatusChunks : ReadChunk(1, value)
    /\ UNCHANGED wire

NextStatus ==
    DeliverStatus

SpecStatus == InitText /\ [][NextStatus]_vars

---------------------------------------------------------------------------
(* The worked scenarios: the same request, whose reads deliver the events  *)
(* of the two scenarios, in any order and number.                          *)

\* the number of reads of the response
MaxSteps == 4

ScenarioChunks ==
    {Frame(Ser(d)) : d \in ScenarioDocs \cup {DocError429}}
    \cup {Frame(S_DONE), Frame(Ser(DocError429)) \o Frame(S_DONE)}

\* a read delivers one of the chunks
DeliverScenario ==
    /\ reqs[1].reads < MaxSteps
    /\ \E value \in ScenarioChunks : ReadChunk(1, value)
    /\ UNCHANGED wire

NextScenario ==
    DeliverScenario

SpecScenario == InitText /\ [][NextScenario]_vars

---------------------------------------------------------------------------
(* Lines that are no events: the same request, whose reads deliver lines   *)
(* without the data: prefix and payloads without a known field, alone or   *)
(* ahead of a token, among ordinary events.                                *)

\* a comment line of the event stream and an event-name line
T_ping ==
    <<":", " ", "p", "i", "n", "g", "\n", "\n">>

T_event ==
    <<"e", "v", "e", "n", "t", ":", " ", "t", "o", "k", "e", "n", "\n">>

LineChunks ==
    { T_ping, T_event \o Frame(Ser(DocToken)),
      Frame(Ser(DocNote)), Frame(Ser(DocNote)) \o Frame(Ser(DocToken)),
      Frame(Ser(DocToken)), Frame(Ser(DocFinal)), Frame(Ser(DocError)), Frame(S_DONE) }

\* a read delivers one of the chunks
DeliverLines ==
    /\ reqs[1].reads < MaxEvents
    /\ \E value \in LineChunks : ReadChunk(1, value)
    /\ UNCHANGED wire

NextLines ==
    DeliverLines

SpecLines == InitText /\ [][NextLines]_vars

---------------------------------------------------------------------------
(* Arrival order: one response whose body is a sequence of events; a read  *)
(* delivers the next event or the next few events, whole, and the body     *)
(* ends after the last one.  wire.body is the sequence of payload objects  *)
(* and wire.pos the number of events delivered.                            *)

OrderDocs == {DocToken, DocTokenM, DocStatus, DocError}

RECURSIVE Frames(_)
\* the bytes of a sequence of events
Frames(docs) ==
    IF docs = <<>> THEN <<>> ELSE Frame(Ser(Head(docs))) \o Frames(Tail(docs))

InitOrder ==
    /\ messages = Submitted(<<>>, <<"q">>)
    /\ loading = TRUE
    /\ reqs = <<NewRequest("read")>>
    /\ \E body \in [1..MaxEvents -> OrderDocs] : wire = [body |-> body, pos |-> 0]

\* a read delivers the next k events
DeliverFrames(k) ==
    /\ wire.pos + k <= Len(wire.body)
    /\ ReadChunk(1, Frames(SubSeq(wire.body, wire.pos + 1, wire.pos + k)))
    /\ wire' = [wire EXCEPT !.pos = @ + k]

\* every event has been delivered: the next read reports done
CloseOrder ==
    /\ wire.pos = Len(wire.body)
    /\ ReadDone(1)
    /\ UNCHANGED wire

NextOrder ==
    \/ \E k \in 1..MaxEvents : DeliverFrames(k)
    \/ CloseOrder

SpecOrder == InitOrder /\ [][NextOrder]_vars

RECURSIVE OneByOne(_, _, _, _)
\* the events applied one per read, in their order
OneByOne(ms, ld, req, docs) ==
    IF docs = <<>> THEN [messages |-> ms, loading |-> ld, req |-> req]
    ELSE LET out == ProcessChunk(ms, ld, req, Frame(Ser(Head(docs))))
         IN  OneByOne(out.messages, out.loading, out.req, Tail(docs))

---------------------------------------------------------------------------
(* The earlier variant of the enhanced client (part_000): tokens, final    *)
(* and error payloads only, handled in this order by independent blocks;   *)
(* no error flag; the decoder is called without the stream option; a Done  *)
(* line clears loading and the end of the body does not.                   *)

S_ErrorPrefix ==
    <<"E", "r", "r", "o", "r", ":", " ">>

\* updated[updated.length - 1].answer += parsed.token
TokenUpdateEarly(ms, parsed) ==
    SetLast(ms, Spread(LastOf(ms), [answer |-> LastOf(ms).answer \o parsed.token]))

\* the updater of the error handler: `Error: ${parsed.error}`
ErrorUpdateEarly(ms, parsed) ==
    SetLast(ms, [role |-> "assistant",
                 answer |-> S_ErrorPrefix \o parsed.error,
                 streaming |-> FALSE])

\* the if-blocks on the parsed payload, in source order
HandleParsedEarly(st, parsed) ==
    LET s1 == IF Truthy(parsed, "token")
              THEN [st EXCEPT !.messages = TokenUpdateEarly(@, parsed)] ELSE st
        s2 == IF "final" \in DOMAIN parsed
              THEN [s1 EXCEPT !.messages = FinalUpdate(@, parsed)] ELSE s1
    IN  IF Truthy(parsed, "error")
        THEN [s2 EXCEPT !.messages = ErrorUpdateEarly(@, parsed), !.loading = FALSE]
        ELSE s2

\* one iteration of: for (const line of lines)
HandleLineEarly(st, line) ==
    IF ~StartsWith(line, S_data) THEN st
    ELSE LET payload == Trim(Replace(line, S_data, <<>>))
         IN  IF payload = <<>> \/ payload = S_DONE
             THEN [st EXCEPT !.loading = FALSE, !.events = Append(@, EvDone)]
             ELSE LET parsed == JSONparse(payload)
                  IN  IF parsed = SyntaxError
                      THEN [st EXCEPT !.events = Append(@, EvMalformed)]
                      ELSE HandleParsedEarly([st EXCEPT !.events = Append(@, parsed)], parsed)

RECURSIVE ProcessLinesEarly(_, _)
\* for (const line of lines) { ... }
ProcessLinesEarly(st, lines) ==
    IF lines = <<>> THEN st
    ELSE ProcessLinesEarly(HandleLineEarly(st, Head(lines)), Tail(lines))

\* decoder.decode(value): bytes of an incomplete character are not kept
DecodeWhole(value) ==
    LET dec == Decode(<<>>, value)
    IN  IF dec.pending = <<>> THEN dec.text ELSE Append(dec.text, "U+FFFD")

\* one pass of the while loop on a chunk
ProcessChunkEarly(ms, ld, req, value) ==
    LET st == ProcessLinesEarly([messages |-> ms, loading |-> ld, hasError |-> FALSE,
                                 events |-> req.events, brk |-> FALSE],
                                Split(DecodeWhole(value), "\n"))
    IN  [messages |-> st.messages,
         loading  |-> st.loading,
         req      |-> [req EXCEPT !.events = st.events, !.reads = @ + 1]]

EarlyChunks ==
    {Frame(Ser(d)) : d \in {DocToken, DocAccent, DocFinal, DocError, DocError429, DocErrorRate}}
    \cup {Frame(S_DONE), Frame(T_notjson)}

\* reader.read() resolves with a chunk
DeliverEarly ==
    /\ reqs[1].pc = "read"
    /\ reqs[1].reads < MaxEvents
    /\ \E value \in EarlyChunks :
         LET out == ProcessChunkEarly(messages, loading, reqs[1], value)
         IN  /\ messages' = out.messages
             /\ loading' = out.loading
             /\ reqs' = [reqs EXCEPT ![1] = out.req]
    /\ UNCHANGED wire

\* reader.read() resolves with done: if (done) break;
CloseEarly ==
    /\ reqs[1].pc = "read"
    /\ reqs' = [reqs EXCEPT ![1].pc = "closed"]
    /\ UNCHANGED <<messages, loading, wire>>

\* reader.read() rejects: the catch block
FailEarly ==
    /\ reqs[1].pc = "read"
    /\ messages' = CatchUpdate(messages)
    /\ loading' = FALSE
    /\ reqs' = [reqs EXCEPT ![1].pc = "failed"]
    /\ UNCHANGED wire

NextEarly ==
    \/ DeliverEarly
    \/ CloseEarly
    \/ FailEarly

SpecEarly == InitText /\ [][NextEarly]_vars

---------------------------------------------------------------------------
(* The same machine with the scheduling the liveness property assumes:     *)
(* every pending fetch settles and every open response body eventually     *)
(* ends, by closure or by failure.                                         *)

\* the await request r is suspended at settles
Settles(r) ==
    /\ r \in DOMAIN reqs
    /\ FetchOk(r) \/ FetchFail(r) \/ Close(r) \/ ReadFail(r)

LiveSpec ==
    /\ Init
    /\ [][Next]_vars
    /\ \A r \in 1..MaxTurns : WF_vars(Settles(r))

---------------------------------------------------------------------------
(* Vocabulary of the properties. *)

\* the assistant message request r appended as its placeholder
Placeholder(r) ==
    2 * r

IsStreaming(m) ==
    /\ "streaming" \in DOMAIN m
    /\ m.streaming

IsFinal(ev) ==
    "final" \in DOMAIN ev

IsError(ev) ==
    "error" \in DOMAIN ev

\* a Final or an Error has been applied by the call that recorded events
Terminated(events) ==
    \E i \in DOMAIN events : IsFinal(events[i]) \/ IsError(events[i])

\* a Done line has been read by the call that recorded events
SawDone(events) ==
    \E i \in DOMAIN events : events[i] = EvDone

\* request r reads a chunk in this step
Reads(r) ==
    reqs'[r].reads = reqs[r].reads + 1

\* the fields of a message the properties compare
View(m) ==
    [text |-> OrEmpty(m, "answer"),
     streaming |-> IsStreaming(m),
     filesAnalyzed |-> OrEmpty(m, "filesAnalyzed"),
     fileCount |-> IF "fileCount" \in DOMAIN m THEN m.fileCount ELSE 0]

---------------------------------------------------------------------------
(* C1: chunking invariance.  Once a well-formed body has been delivered    *)
(* whole and closed, the events classified and the assistant message are   *)
(* those of the same body delivered in one chunk, however it was split.    *)
C1_ChunkingInvariance ==
    (Len(reqs) = 1 /\ reqs[1].pc = "closed" /\ wire.body # <<>>)
        => /\ reqs[1].events = OneChunk(wire.body).req.events
           /\ View(LastOf(messages)) = View(LastOf(OneChunk(wire.body).messages))

(* C2: idempotent termination.  Once a Final or an Error has been applied  *)
(* by a response, no later chunk of that response changes the text,        *)
(* streaming, filesAnalyzed or fileCount of its message.                   *)
C2_IdempotentTermination ==
    [][\A r \in DOMAIN reqs :
         (Terminated(reqs[r].events) /\ Reads(r))
            => View(messages'[Placeholder(r)]) = View(messages[Placeholder(r)])]_vars

(* C3: in every reachable state a message with streaming = true is the     *)
(* last message of the conversation (so at most one message is streaming). *)
C3_StreamingOnlyAtTail ==
    \A i \in DOMAIN messages : IsStreaming(messages[i]) => i = Len(messages)

(* C4: at no time are the read loops of two requests running.              *)
C4_OneActiveRequest ==
    Cardinality({r \in DOMAIN reqs : reqs[r].pc = "read"}) <= 1

(* C5: a chunk read by request r changes no message but the placeholder    *)
(* that r's own submission appended.                                       *)
C5_OwnMessageOnly ==
    [][\A r \in DOMAIN reqs :
         Reads(r) => \A i \in DOMAIN messages :
                        i # Placeholder(r) => messages'[i] = messages[i]]_vars

(* C6: after the first terminal signal of a turn (Final, Error or Done; a  *)
(* closure or failure ends the call), no later step of that turn's call    *)
(* changes the value of loading.                                           *)
C6_LoadingClearedOnce ==
    [][\A r \in DOMAIN reqs :
         ((Terminated(reqs[r].events) \/ SawDone(reqs[r].events)) /\ reqs'[r] # reqs[r])
            => loading' = loading]_vars

(* C7: liveness.  When every response body eventually closes or fails,     *)
(* loading, once true, eventually becomes false.                           *)
C7_LoadingEventuallyFalse ==
    loading ~> ~loading

\* a body that carried only tokens has closed and left loading false
C7_Witness ==
    \E r \in DOMAIN reqs :
        /\ reqs[r].pc = "closed"
        /\ reqs[r].events # <<>>
        /\ ~Terminated(reqs[r].events)
        /\ ~SawDone(reqs[r].events)
        /\ ~loading

(* C8: a Done line read before any Final or Error sets streaming of the    *)
(* response's message to false and leaves its text unchanged.              *)
C8_DoneStopsStreaming ==
    [][\A r \in DOMAIN reqs :
         (/\ ~Terminated(reqs[r].events)
          /\ reqs'[r].events = Append(reqs[r].events, EvDone))
            => /\ ~IsStreaming(messages'[Placeholder(r)])
               /\ View(messages'[Placeholder(r)]).text = View(messages[Placeholder(r)]).text]_vars

(* C9: a response body that closes with no Final, Error or Done seen       *)
(* leaves its message with streaming = false and its text unchanged.       *)
C9_ClosureIsDone ==
    [][\A r \in DOMAIN reqs :
         (/\ reqs[r].pc = "read"
          /\ reqs'[r].pc = "closed"
          /\ ~Terminated(reqs[r].events)
          /\ ~SawDone(reqs[r].events))
            => /\ ~IsStreaming(messages'[Placeholder(r)])
               /\ View(messages'[Placeholder(r)]).text = View(messages[Placeholder(r)]).text]_vars

(* C10: after a Done line of a response, no later chunk of that response   *)
(* changes the messages or loading.                                        *)
C10_NothingAfterDone ==
    [][\A r \in DOMAIN reqs :
         (SawDone(reqs[r].events) /\ Reads(r))
            => messages' = messages /\ loading' = loading]_vars

---------------------------------------------------------------------------
(* C11: frame.  Every step leaves every message other than the last one    *)
(* unchanged and never removes, reorders or shortens the conversation: the *)
(* conversation only grows at its end, and what a step rewrites is the     *)
(* last message it found.  In particular an error of one turn changes no   *)
(* message of an earlier turn.                                             *)
C11_Frame ==
    [][/\ Len(messages') >= Len(messages)
       /\ \A i \in 1..(Len(messages) - 1) : messages'[i] = messages[i]
       /\ (Len(messages') > Len(messages) /\ Len(messages) > 0)
            => messages'[Len(messages)] = messages[Len(messages)]]_vars

\* the second turn ended by an error while the first turn's answer is intact
C11_Witness ==
    /\ Len(reqs) = 2
    /\ reqs[1].events = <<DocFinal>>
    /\ reqs[2].events = <<DocError>>
    /\ messages[4].answer = DocError.error
    /\ View(messages[2]).text = DocFinal.final.answer
    /\ ~IsStreaming(messages[2])

---------------------------------------------------------------------------
(* Vocabulary of the rules on the text. *)

\* the events the one request of SpecText has classified so far
Events ==
    reqs[1].events

\* this step classified exactly the payload d
Applies(d) ==
    reqs'[1].events = Append(reqs[1].events, d)

\* the payload carries exactly one of the fields error, status, token, final
OneField(d) ==
    Cardinality({"error", "status", "token", "final"} \cap DOMAIN d) = 1

\* the text of the message being assembled
Text ==
    OrEmpty(LastOf(messages), "answer")

---------------------------------------------------------------------------
(* C12: Final transition.  A Final event sets the text of the message it   *)
(* is applied to to exactly the final answer, whatever text had            *)
(* accumulated, sets filesAnalyzed and fileCount from the payload (the     *)
(* empty list and 0 when the payload has none) and sets streaming false.   *)
C12_FinalTransition ==
    [][\A d \in Docs :
         (IsFinal(d) /\ ~IsError(d) /\ Applies(d))
         => LET m == LastOf(messages')
            IN  /\ DOMAIN m = {"role", "answer", "streaming", "filesAnalyzed", "fileCount"}
                /\ m.role = "assistant"
                /\ m.answer = d.final.answer
                /\ m.filesAnalyzed = (IF "files_analyzed" \in DOMAIN d.final
                                      THEN d.final.files_analyzed ELSE <<>>)
                /\ m.fileCount = (IF "file_count" \in DOMAIN d.final
                                  THEN d.final.file_count ELSE 0)
                /\ m.streaming = FALSE]_vars

\* a Final without file fields applied to a message that held banner and token text
C12_Witness ==
    /\ Events = <<DocCombining, DocToken, DocFinalBare>>
    /\ LastOf(messages).answer = <<"o", "k">>
    /\ LastOf(messages).filesAnalyzed = <<>>
    /\ LastOf(messages).fileCount = 0
    /\ ~LastOf(messages).streaming

---------------------------------------------------------------------------
(* C13: token-append law.  Starting from the empty placeholder, for any    *)
(* sequence of Token events none of which meets the status-banner          *)
(* replacement condition, the text is the concatenation of the token       *)
(* texts in arrival order.                                                 *)

RECURSIVE ConcatTokens(_)
\* token texts in arrival order
ConcatTokens(evs) ==
    IF evs = <<>> THEN <<>>
    ELSE ConcatTokens(SubSeq(evs, 1, Len(evs) - 1)) \o evs[Len(evs)].token

\* the replacement condition: the text shows a progress marker and does not
\* contain the trimmed token
MeetsReplacement(text, token) ==
    /\ \E mark \in {"U+1F4C4", "U+1F504", "U+1F4DD"} : Includes(text, <<mark>>)
    /\ ~Includes(text, Trim(token))

C13_TokenAppendLaw ==
    ( /\ \A i \in DOMAIN Events : Events[i] \in TokenDocs
      /\ \A k \in DOMAIN Events :
            ~MeetsReplacement(ConcatTokens(SubSeq(Events, 1, k - 1)), Events[k].token) )
    => Text = ConcatTokens(Events)

\* three tokens appended, one of them holding a marker character
C13_Witness ==
    /\ Events = <<DocToken, DocTokenMemo, DocToken>>
    /\ Text = <<"h", "i", "U+1F4DD", "h", "i">>

---------------------------------------------------------------------------
(* C14: no token loss.  A Token event replaces the text only when the text *)
(* consists solely of status banners; when the text holds anything else    *)
(* (text of an earlier token, with or without a banner after it or a       *)
(* marker character in it) the token is appended and the earlier text is   *)
(* preserved.                                                              *)

\* the first characters of the six banners
BannerMarks ==
    {"U+1F4C4", "U+1F504", "U+1F4DD", "U+1F517", "U+2728", "U+26A0"}

\* the text is made of banner lines only: every line starts with a banner mark
\* and is ended by a line feed
BannersOnly(text) ==
    /\ text # <<>>
    /\ text[Len(text)] = "\n"
    /\ LET lines == Split(SubSeq(text, 1, Len(text) - 1), "\n")
       IN  \A i \in DOMAIN lines : lines[i] # <<>> /\ lines[i][1] \in BannerMarks

C14_NoTokenLoss ==
    [][\A d \in TokenDocs :
         (Applies(d) /\ ~BannersOnly(Text)) => Text' = Text \o d.token]_vars

---------------------------------------------------------------------------
(* C15: no banner leak.  When the text consists only of status banners,    *)
(* produced by any sequence of Status events, and a Token arrives whose    *)
(* trimmed content is not contained in the text, the text becomes exactly  *)
(* the token: no banner stays in front of the answer.                      *)
C15_NoBannerLeak ==
    [][\A d \in TokenDocs :
         ( /\ Applies(d)
           /\ Events # <<>>
           /\ \A i \in DOMAIN Events : Events[i] \in StatusDocs
           /\ BannersOnly(Text)
           /\ ~Includes(Text, Trim(d.token)) )
         => Text' = d.token]_vars

---------------------------------------------------------------------------
(* C16: Error transition.  An Error event replaces the message being       *)
(* assembled by an assistant message whose text is the error message or    *)
(* its rate-limit rewrite, with streaming false and without filesAnalyzed  *)
(* and fileCount, whatever was accumulated before, and clears loading.     *)
C16_ErrorTransition ==
    [][\A d \in Docs :
         (IsError(d) /\ Applies(d))
         => LET m == LastOf(messages')
            IN  /\ DOMAIN m = {"role", "answer", "streaming"}
                /\ m.role = "assistant"
                /\ m.answer \in {d.error, RateLimitLong, RateLimitShort}
                /\ m.streaming = FALSE
                /\ loading' = FALSE
                /\ Len(messages') = Len(messages)]_vars

\* an Error applied to a message that a Final had given file fields
C16_Witness ==
    /\ Events = <<DocToken, DocFinal, DocError>>
    /\ LastOf(messages) = [role |-> "assistant", answer |-> DocError.error, streaming |-> FALSE]
    /\ ~loading

---------------------------------------------------------------------------
(* C17: transport failure.  When the fetch or a read of a request fails    *)
(* before that request saw a terminal event, the catch block replaces the  *)
(* message being assembled (the last message; the request's own            *)
(* placeholder when it is the latest request) by an assistant message with *)
(* the fixed connectivity text and streaming false, and clears loading;    *)
(* the request is not retried: it makes no further step and no request is  *)
(* started for it.                                                         *)
C17_TransportFailure ==
    [][\A r \in DOMAIN reqs :
         /\ ( /\ reqs[r].pc # "failed"
              /\ reqs'[r].pc = "failed"
              /\ ~Terminated(reqs[r].events)
              /\ ~SawDone(reqs[r].events) )
            => /\ LastOf(messages') =
                    [role |-> "assistant", answer |-> ConnectError, streaming |-> FALSE]
               /\ Len(messages') = Len(messages)
               /\ r = Len(reqs) => Len(messages') = Placeholder(r)
               /\ loading' = FALSE
               /\ Len(reqs') = Len(reqs)
         /\ reqs[r].pc = "failed" => reqs'[r] = reqs[r]]_vars

\* a response that broke after a token
C17_Witness ==
    /\ Len(reqs) = 1
    /\ reqs[1].pc = "failed"
    /\ reqs[1].events = <<DocToken>>
    /\ messages[Placeholder(1)] =
         [role |-> "assistant", answer |-> ConnectError, streaming |-> FALSE]
    /\ ~loading

---------------------------------------------------------------------------
(* C18: malformed payload.  A data line whose payload is no JSON changes   *)
(* neither the message nor loading nor the error flag, and the lines after *)
(* it are processed as if it had not been there: "data: not-json" followed *)
(* by the token "hi" ends with the text "hi".                              *)
C18_MalformedSkipped ==
    [][/\ Applies(EvMalformed)
          => /\ messages' = messages
             /\ loading' = loading
             /\ reqs'[1].hasError = reqs[1].hasError
             /\ reqs'[1].pc = reqs[1].pc
       /\ LET with    == ProcessChunk(messages, loading, reqs[1],
                                      Frame(T_notjson) \o Frame(Ser(DocToken)))
              without == ProcessChunk(messages, loading, reqs[1], Frame(Ser(DocToken)))
          IN  /\ with.messages = without.messages
              /\ with.loading = without.loading
              /\ with.req.events = reqs[1].events \o <<EvMalformed, DocToken>>
       /\ reqs'[1].events = <<EvMalformed, DocToken>> => Text' = <<"h", "i">>]_vars

\* the malformed line and the token arrived in one read
C18_Witness ==
    /\ Events = <<EvMalformed, DocToken>>
    /\ reqs[1].reads = 1
    /\ Text = <<"h", "i">>
    /\ IsStreaming(LastOf(messages))
    /\ loading

---------------------------------------------------------------------------
(* C19: classifier precedence.  A payload that holds more than one of the  *)
(* fields error, status, token, final causes exactly one transition: that  *)
(* of the first field present in the order error, status, token, final.    *)

\* the conversation after the one transition of the first field present
FirstMatch(ms, d) ==
    IF "error" \in DOMAIN d THEN ErrorUpdate(ms, d)
    ELSE IF "status" \in DOMAIN d THEN StatusUpdate(ms, d)
    ELSE IF "token" \in DOMAIN d THEN TokenUpdate(ms, d)
    ELSE FinalUpdate(ms, d)

\* that transition clears loading when it is the one of Error or Final
FirstMatchLoading(ld, d) ==
    IF "error" \in DOMAIN d THEN FALSE
    ELSE IF "status" \in DOMAIN d \/ "token" \in DOMAIN d THEN ld
    ELSE FALSE

C19_ClassifierPrecedence ==
    [][\A d \in MultiDocs :
         Applies(d) => /\ messages' = FirstMatch(messages, d)
                       /\ loading' = FirstMatchLoading(loading, d)]_vars

---------------------------------------------------------------------------
(* C20: status text rules.  A Status of phase chunking or processing       *)
(* replaces the whole text by a fresh banner made from its message; a      *)
(* Status of phase combining, finalizing or error appends exactly one      *)
(* banner line to the text and keeps everything that was there: the old    *)
(* text is the beginning of the new one, and when the old text is made of  *)
(* whole lines, the lines of the new text are the old lines and the        *)
(* banner line.                                                            *)

\* the lines of a text that ends with a line feed (or is empty)
Lines(text) ==
    IF text = <<>> THEN <<>> ELSE Split(SubSeq(text, 1, Len(text) - 1), "\n")

\* the text consists of whole lines
WholeLines(text) ==
    text = <<>> \/ text[Len(text)] = "\n"

\* the text is a marker, a blank, the message and a line feed
IsBannerLine(text, mark, msg) ==
    text = mark \o <<" ">> \o msg \o <<"\n">>

C20_StatusTextRules ==
    [][\A d \in StatusDocs :
         Applies(d) =>
           /\ d.status = S_chunking => IsBannerLine(Text', <<"U+1F4C4">>, d.message)
           /\ d.status = S_processing
                => /\ Len(Lines(Text')) = 2
                   /\ Lines(Text')[1][1] = "U+1F4C4"
                   /\ IsBannerLine(Lines(Text')[2] \o <<"\n">>, <<"U+1F504">>, d.message)
                   /\ WholeLines(Text')
           /\ d.status \in {S_combining, S_finalizing, S_error}
                => LET mark == IF d.status = S_combining THEN <<"U+1F517">>
                               ELSE IF d.status = S_finalizing THEN <<"U+2728">>
                               ELSE <<"U+26A0", "U+FE0F">>
                       added == SubSeq(Text', Len(Text) + 1, Len(Text'))
                   IN  /\ Len(Text') > Len(Text)
                       /\ SubSeq(Text', 1, Len(Text)) = Text
                       /\ IsBannerLine(added, mark, d.message)
                       /\ WholeLines(Text)
                            => Lines(Text') = Append(Lines(Text), mark \o <<" ">> \o d.message)]_vars

\* chunking replaced the text a token had written, finalizing appended its line
C20_Witness ==
    /\ Events = <<DocToken, DocStatus, DocFinalizing>>
    /\ Text = <<"U+1F4C4", " ", "m", "\n", "U+2728", " ", "m", "\n">>

---------------------------------------------------------------------------
(* C21: per-chunk progress.  After any sequence of Status events the text  *)
(* holds at most one per-chunk-progress line, the most recent one, and the *)
(* other banner lines that were in the text before a progress update are   *)
(* still there, in the same order, after it.                               *)

\* a line written by the phase chunk: it starts with the memo marker
IsProgressLine(l) ==
    l # <<>> /\ l[1] = "U+1F4DD"

\* any other line that is not blank
IsOtherLine(l) ==
    l # <<>> /\ l[1] # "U+1F4DD"

ProgressLines(text) ==
    SelectSeq(Split(text, "\n"), IsProgressLine)

OtherLines(text) ==
    SelectSeq(Split(text, "\n"), IsOtherLine)

C21_OneProgressLine ==
    [][\A d \in AllStatusDocs :
         ( /\ Applies(d)
           /\ d.status = S_chunk
           /\ \A i \in DOMAIN Events : Events[i] \in AllStatusDocs )
         => /\ ProgressLines(Text') = <<B_memo \o d.message>>
            /\ OtherLines(Text') = OtherLines(Text)]_vars

---------------------------------------------------------------------------
(* C22: a Status event, of any phase, an unknown one included, never ends  *)
(* the request: the message is streaming after it, loading is what it was, *)
(* and the call keeps reading.                                             *)
C22_StatusNeverTerminates ==
    [][\A d \in AllStatusDocs :
         Applies(d) => /\ IsStreaming(LastOf(messages'))
                       /\ loading' = loading
                       /\ reqs'[1].pc = "read"
                       /\ reqs'[1].hasError = reqs[1].hasError]_vars

\* a status of the phase error and one of an unknown phase have been applied
C22_Witness ==
    /\ Events = <<DocToken, DocStatusError, DocStatusOther>>
    /\ IsStreaming(LastOf(messages))
    /\ loading
    /\ reqs[1].pc = "read"

---------------------------------------------------------------------------
(* C23: scenario A.  Status(chunking, "Splitting document"),               *)
(* Token("Result: "), Token("normal."), Final(answer "Result: normal.",    *)
(* files_analyzed ["a.txt"], file_count 1), applied to a fresh             *)
(* placeholder: after the second token the text is already                 *)
(* "Result: normal." with no banner, and the message ends with that text,  *)
(* streaming false, filesAnalyzed ["a.txt"] and fileCount 1.               *)
C23_ScenarioA ==
    /\ Events = <<DocSplitting, DocResult, DocNormal>>
         => /\ Text = DocResult.token \o DocNormal.token
            /\ Text = DocFinalResult.final.answer
            /\ IsStreaming(LastOf(messages))
    /\ Events = <<DocSplitting, DocResult, DocNormal, DocFinalResult>>
         => LastOf(messages) =
              [role |-> "assistant",
               answer |-> DocFinalResult.final.answer,
               streaming |-> FALSE,
               filesAnalyzed |-> << <<"a", ".", "t", "x", "t">> >>,
               fileCount |-> 1]

\* the four events of the scenario have been applied
C23_Witness ==
    /\ Events = <<DocSplitting, DocResult, DocNormal, DocFinalResult>>
    /\ Len(messages) = 2
    /\ Text = DocFinalResult.final.answer
    /\ ~loading

---------------------------------------------------------------------------
(* C24: scenario B.  Token("par"), Error("Error code: 429") ends with the  *)
(* text of the error message or its rate-limit rewrite and streaming       *)
(* false, and a [DONE] line after the error, in the same chunk or in a     *)
(* later one, does not change the message.                                 *)

\* the events of the scenario, followed by any number of Done lines
IsScenarioB(evs) ==
    /\ Len(evs) >= 2
    /\ evs[1] = DocPar
    /\ evs[2] = DocError429
    /\ \A i \in 3..Len(evs) : evs[i] = EvDone

C24_ScenarioB ==
    [][/\ IsScenarioB(Events')
          => /\ LastOf(messages').answer \in {DocError429.error, RateLimitLong, RateLimitShort}
             /\ ~IsStreaming(LastOf(messages'))
             /\ LastOf(messages').role = "assistant"
       /\ (IsScenarioB(Events) /\ IsScenarioB(Events')) => messages' = messages
       /\ LET sameChunk == ProcessChunk(messages, loading, reqs[1],
                                        Frame(Ser(DocError429)) \o Frame(S_DONE))
              alone     == ProcessChunk(messages, loading, reqs[1], Frame(Ser(DocError429)))
          IN  Events = <<DocPar>> => sameChunk.messages = alone.messages]_vars

\* the error and a Done line read after it
C24_Witness ==
    /\ Events = <<DocPar, DocError429, EvDone>>
    /\ LastOf(messages) = [role |-> "assistant", answer |-> RateLimitLong, streaming |-> FALSE]

---------------------------------------------------------------------------
(* C25: rate-limit policy.  An Error whose message contains a rate-limit   *)
(* indicator ("429", "Rate limit" or "rate limit") is displayed as a fixed *)
(* rate-limit text; every other error message is displayed verbatim, with  *)
(* nothing added or removed.                                               *)

HasRateLimitIndicator(err) ==
    Includes(err, S_429) \/ Includes(err, S_RateLimit) \/ Includes(err, S_rateLimit)

\* what the policy displays for the payload d
RateLimitPolicy(d, shown) ==
    IF HasRateLimitIndicator(d.error)
    THEN shown \in {RateLimitLong, RateLimitShort}
    ELSE shown = d.error

C25_RateLimitPolicy ==
    [][\A d \in {DocError, DocError429, DocErrorRate} :
         Applies(d) => RateLimitPolicy(d, Text')]_vars

---------------------------------------------------------------------------
(* C26: submit.  An accepted submission appends exactly two messages, the  *)
(* user message and right after it an assistant placeholder with empty     *)
(* text and streaming true, sets loading and opens one request; it is      *)
(* accepted only when the input is not blank and loading is false.  A      *)
(* submission with blank input or made while loading changes nothing, so   *)
(* no step adds a message or a request in another way.                     *)
C26_Submit ==
    [][/\ (Len(messages') # Len(messages) \/ Len(reqs') # Len(reqs))
          => /\ ~loading
             /\ loading'
             /\ Len(messages') = Len(messages) + 2
             /\ SubSeq(messages', 1, Len(messages)) = messages
             /\ messages'[Len(messages) + 1].role = "user"
             /\ Trim(messages'[Len(messages) + 1].content) # <<>>
             /\ messages'[Len(messages) + 2] =
                  [role |-> "assistant", answer |-> <<>>, streaming |-> TRUE]
             /\ Len(reqs') = Len(reqs) + 1
             /\ SubSeq(reqs', 1, Len(reqs)) = reqs
             /\ reqs'[Len(reqs')].pc = "fetch"
       /\ \A q \in Inputs :
            (SendMessage(q) /\ (Trim(q) = <<>> \/ loading)) => UNCHANGED vars]_vars

\* a second submission has been accepted after the first answer was reported
C26_Witness ==
    /\ Len(reqs) = 2
    /\ reqs[2].pc = "fetch"
    /\ Len(messages) = 4
    /\ messages[3] = [role |-> "user", content |-> <<"q">>]
    /\ messages[4] = [role |-> "assistant", answer |-> <<>>, streaming |-> TRUE]
    /\ loading

---------------------------------------------------------------------------
(* C27: lines that do not begin with "data:" and parsed payloads that      *)
(* carry none of the fields error, status, token, final leave messages and *)
(* loading unchanged, and processing continues with the next line.         *)
C27_NonEventsSkipped ==
    [][/\ (Reads(1) /\ reqs'[1].events = reqs[1].events)
          => messages' = messages /\ loading' = loading
       /\ Applies(DocNote)
          => messages' = messages /\ loading' = loading
       /\ LET token  == ProcessChunk(messages, loading, reqs[1], Frame(Ser(DocToken)))
              named  == ProcessChunk(messages, loading, reqs[1],
                                     T_event \o Frame(Ser(DocToken)))
              noted  == ProcessChunk(messages, loading, reqs[1],
                                     Frame(Ser(DocNote)) \o Frame(Ser(DocToken)))
          IN  /\ named.messages = token.messages
              /\ named.loading = token.loading
              /\ named.req.events = token.req.events
              /\ noted.messages = token.messages
              /\ noted.loading = token.loading
              /\ noted.req.events = reqs[1].events \o <<DocNote, DocToken>>]_vars

\* a comment line, then a payload without a known field ahead of a token
C27_Witness ==
    /\ reqs[1].reads = 2
    /\ Events = <<DocNote, DocToken>>
    /\ Text = DocToken.token
    /\ loading

---------------------------------------------------------------------------
(* C28: ordering.  Within one response the events are applied to the       *)
(* message strictly in arrival order, one state update per event, never    *)
(* reordered and never merged: after the k-th event the message and        *)
(* loading are what the first k events give when they are applied one      *)
(* after the other, however the reads grouped them.                        *)
C28_Ordering ==
    LET one == OneByOne(Submitted(<<>>, <<"q">>), TRUE, NewRequest("read"),
                        SubSeq(wire.body, 1, wire.pos))
    IN  /\ messages = one.messages
        /\ reqs[1].pc = "read" => loading = one.loading

---------------------------------------------------------------------------
(* C29: cancellation.  An in-flight stream can be abandoned: the           *)
(* controller has a step that releases the stream of a request that is     *)
(* waiting for its response or reading it, keeps the conversation and      *)
(* loading as the last mutation left them and does not mark the message as *)
(* errored; nothing of that stream is applied afterwards.                  *)

\* the steps the user interface can start: the Enter key and the send button
\* both call sendMessage
UserStep ==
    \E q \in Inputs : SendMessage(q)

\* a step of the user interface that releases the stream of request r
Abandons(r) ==
    /\ UserStep
    /\ reqs'[r].pc \notin {"fetch", "read"}
    /\ messages' = messages
    /\ loading' = loading

C29_Cancellation ==
    \A r \in DOMAIN reqs :
       reqs[r].pc \in {"fetch", "read"} => ENABLED Abandons(r)

---------------------------------------------------------------------------
(* C30: a transport failure (a read rejects) after a Final or an Error was *)
(* applied leaves the conversation unchanged: the connectivity text never  *)
(* overwrites a delivered final answer or error text.                      *)
C30_FailureAfterTerminal ==
    [][\A r \in DOMAIN reqs :
         ( /\ reqs[r].pc = "read"
           /\ reqs'[r].pc = "failed"
           /\ Terminated(reqs[r].events) )
         => messages' = messages]_vars

---------------------------------------------------------------------------
(* The end of a response whose last event line has no line terminator:     *)
(* one body under every chunking, as in SpecChunk.  The body ends with a   *)
(* data: line that no line feed follows, and the next read reports done.   *)

\* an event line without its line terminator
Unterminated(payload) ==
    Encode(S_data \o <<" ">> \o payload)

\* bodies whose last line is an unterminated event line
TailBodies ==
    { Unterminated(Ser(DocToken)),
      Frame(Ser(DocToken)) \o Unterminated(Ser(DocTokenM)),
      Frame(Ser(DocToken)) \o Unterminated(Ser(DocFinal)) }

InitTail ==
    /\ messages = Submitted(<<>>, <<"q">>)
    /\ loading = TRUE
    /\ reqs = <<NewRequest("read")>>
    /\ \E body \in TailBodies : wire = [body |-> body, pos |-> 0]

SpecTail == InitTail /\ [][NextChunk]_vars

\* the event the last line of a body carries
TailEvent(body) ==
    JSONparse(Trim(Replace(LastOf(Split(DecodeWhole(body), "\n")), S_data, <<>>)))

(* C31: once a body whose last line is an unterminated event line has been *)
(* delivered and the read loop has seen the end of the stream, that line's *)
(* event is the last event the call classified and applied.                *)
C31_LastLineApplied ==
    reqs[1].pc = "closed" =>
        /\ Events # <<>>
        /\ Events[Len(Events)] = TailEvent(wire.body)

(* C32: in every reachable state, when loading is false no message of the  *)
(* conversation has streaming = true.                                      *)
C32_FlagsAgree ==
    ~loading => \A i \in DOMAIN messages : ~IsStreaming(messages[i])

\* request r has been accepted and none of its terminal signals has come:
\* no Final, Error or Done line, and its call has not returned
InFlight(r) ==
    /\ reqs[r].pc \in {"fetch", "read"}
    /\ ~Terminated(reqs[r].events)
    /\ ~SawDone(reqs[r].events)

(* C33: loading is true as long as an accepted request has not had its own *)
(* first terminal signal; a Done line, closure or failure of an earlier    *)
(* request does not clear it while a later request is in flight.           *)
C33_LoadingWhileInFlight ==
    \A r \in DOMAIN reqs : InFlight(r) => loading

(* C34: when a per-chunk-progress Status replaces an existing progress     *)
(* line in a text made by Status events, the text keeps its number of      *)
(* lines: its lines are the earlier banner lines followed by the one new   *)
(* progress line, and none of them is blank.                               *)
C34_ReplacementKeepsLines ==
    [][\A d \in AllStatusDocs :
         ( /\ Applies(d)
           /\ d.status = S_chunk
           /\ Includes(Text, B_summarizing)
           /\ \A i \in DOMAIN Events : Events[i] \in AllStatusDocs )
         => /\ WholeLines(Text')
            /\ Len(Lines(Text')) = Len(Lines(Text))
            /\ Lines(Text') = Append(SelectSeq(Lines(Text), IsOtherLine), B_memo \o d.message)
            /\ \A i \in DOMAIN Lines(Text') : Lines(Text')[i] # <<>>]_vars

(* C35: in every reachable state the conversation is a sequence of pairs,  *)
(* one per accepted submission: its length is even, the first message of   *)
(* each pair is the user message and the second the assistant message of   *)
(* that turn (positions 0, 2, .. and 1, 3, .. of the array, here 2r - 1    *)
(* and 2r).                                                                *)
C35_Pairs ==
    /\ Len(messages) % 2 = 0
    /\ Len(messages) = 2 * Len(reqs)
    /\ \A r \in DOMAIN reqs :
         /\ messages[2 * r - 1].role = "user"
         /\ DOMAIN messages[2 * r - 1] = {"role", "content"}
         /\ messages[Placeholder(r)].role = "assistant"
         /\ "answer" \in DOMAIN messages[Placeholder(r)]

\* two turns: the error handler replaced the tail of the first, the catch
\* block the tail of the second
C35_Witness ==
    /\ Len(messages) = 4
    /\ messages[2] = [role |-> "assistant", answer |-> DocError.error, streaming |-> FALSE]
    /\ messages[4] = [role |-> "assistant", answer |-> ConnectError, streaming |-> FALSE]
    /\ reqs[2].pc = "failed"

---------------------------------------------------------------------------
(* The other builds of the client: App.original.jsx (chat with plan and    *)
(* context), part_000 (the earlier enhanced client, modelled above) and    *)
(* part_001 (the intake chat).  One request whose response is open; the    *)
(* build that runs it is the field variant of the request record.  In      *)
(* App.original.jsx and part_001 JSON.parse stands outside any inner try:  *)
(* a SyntaxError leaves the read loop for the catch block of sendMessage.  *)

ConnectErrorShort ==
    <<"E", "r", "r", "o", "r", " ", "c", "o", "n", "n", "e", "c", "t", "i", "n", "g", " ", "t",
       "o", " ", "b", "a", "c", "k", "e", "n", "d", ".">>

Variants == {"App.original", "part_000", "part_001"}

\* the messages the synchronous part of sendMessage appends to an empty
\* conversation; part_001 appends the user message only for a question
SubmittedOf(v, q) ==
    IF v = "part_001"
    THEN (IF q # <<>> THEN << [role |-> "user", content |-> q] >> ELSE <<>>)
         \o << [role |-> "assistant", content |-> <<>>, streaming |-> TRUE] >>
    ELSE IF v = "App.original"
    THEN << [role |-> "user", content |-> q],
            [role |-> "assistant", answer |-> <<>>, plan |-> <<>>, context |-> <<>>,
             streaming |-> TRUE] >>
    ELSE Submitted(<<>>, q)

\* what sendMessage may be called with: part_001 also runs without a question
QuestionsOf(v) ==
    IF v = "part_001" THEN {<<>>, <<"q">>} ELSE {<<"q">>}

\* updated[updated.length - 1].answer += parsed.token (content in part_001)
TokenUpdatePlain(v, ms, parsed) ==
    IF v = "part_001"
    THEN SetLast(ms, Spread(LastOf(ms), [content |-> LastOf(ms).content \o parsed.token]))
    ELSE SetLast(ms, Spread(LastOf(ms), [answer |-> LastOf(ms).answer \o parsed.token]))

\* the updater of the final handler
FinalUpdatePlain(v, ms, parsed) ==
    IF v = "part_001"
    THEN SetLast(ms, [role |-> "assistant",
                      content |-> parsed.final.answer,
                      streaming |-> FALSE])
    ELSE SetLast(ms, Spread(LastOf(ms),
                            [answer |-> parsed.final.answer,
                             plan |-> OrEmpty(parsed.final, "plan"),
                             context |-> OrEmpty(parsed.final, "context"),
                             streaming |-> FALSE]))

\* the updater of the catch block: part_001 appends a message, the other
\* builds replace the last one
CatchUpdateOf(v, ms) ==
    IF v = "part_001"
    THEN Append(ms, [role |-> "assistant", content |-> ConnectErrorShort, streaming |-> FALSE])
    ELSE IF v = "App.original"
    THEN SetLast(ms, [role |-> "assistant", answer |-> ConnectErrorShort,
                      plan |-> <<>>, context |-> <<>>, streaming |-> FALSE])
    ELSE CatchUpdate(ms)

\* one iteration of: for (const line of lines), JSON.parse unguarded
HandleLinePlain(v, st, line) ==
    IF ~StartsWith(line, S_data) THEN st
    ELSE LET payload == Trim(Replace(line, S_data, <<>>))
         IN  IF payload = <<>> \/ payload = S_DONE
             THEN [st EXCEPT !.loading = FALSE, !.events = Append(@, EvDone)]
             ELSE LET parsed == JSONparse(payload)
                  IN  IF parsed = SyntaxError
                      THEN [st EXCEPT !.thrown = TRUE, !.events = Append(@, EvMalformed)]
                      ELSE LET s0 == [st EXCEPT !.events = Append(@, parsed)]
                               s1 == IF Truthy(parsed, "token")
                                     THEN [s0 EXCEPT !.messages = TokenUpdatePlain(v, @, parsed)]
                                     ELSE s0
                           IN  IF "final" \in DOMAIN parsed
                               THEN [s1 EXCEPT !.messages = FinalUpdatePlain(v, @, parsed)]
                               ELSE s1

RECURSIVE ProcessLinesPlain(_, _, _)
\* for (const line of lines) { ... }, left by the exception of JSON.parse
ProcessLinesPlain(v, st, lines) ==
    IF lines = <<>> \/ st.thrown THEN st
    ELSE ProcessLinesPlain(v, HandleLinePlain(v, st, Head(lines)), Tail(lines))

\* one pass of the while loop on a chunk; an exception runs the catch block
\* and ends the call
ProcessChunkPlain(v, ms, ld, req, value) ==
    LET st == ProcessLinesPlain(v, [messages |-> ms, loading |-> ld,
                                    events |-> req.events, thrown |-> FALSE],
                                Split(DecodeWhole(value), "\n"))
    IN  IF st.thrown
        THEN [messages |-> CatchUpdateOf(v, st.messages),
              loading  |-> FALSE,
              req      |-> [req EXCEPT !.events = st.events, !.reads = @ + 1,
                                       !.pc = "failed"]]
        ELSE [messages |-> st.messages,
              loading  |-> st.loading,
              req      |-> [req EXCEPT !.events = st.events, !.reads = @ + 1]]

\* the pass of the build v
ProcessChunkOf(v, ms, ld, req, value) ==
    IF v = "part_000" THEN ProcessChunkEarly(ms, ld, req, value)
    ELSE ProcessChunkPlain(v, ms, ld, req, value)

VariantChunks ==
    { Frame(Ser(DocToken)), Frame(Ser(DocFinal)), Frame(Ser(DocError)), Frame(S_DONE),
      Frame(T_notjson), Frame(T_notjson) \o Frame(Ser(DocToken)) }

InitVariants ==
    /\ \E v \in Variants :
         /\ \E q \in QuestionsOf(v) : messages = SubmittedOf(v, q)
         /\ reqs = << Spread(NewRequest("read"), [variant |-> v]) >>
    /\ loading = TRUE
    /\ wire = NoWire

\* reader.read() resolves with a chunk
DeliverVariant ==
    /\ reqs[1].pc = "read"
    /\ reqs[1].reads < MaxEvents
    /\ \E value \in VariantChunks :
         LET out == ProcessChunkOf(reqs[1].variant, messages, loading, reqs[1], value)
         IN  /\ messages' = out.messages
             /\ loading' = out.loading
             /\ reqs' = [reqs EXCEPT ![1] = out.req]
    /\ UNCHANGED wire

\* reader.read() resolves with done: if (done) break;
CloseVariant ==
    /\ reqs[1].pc = "read"
    /\ reqs' = [reqs EXCEPT ![1].pc = "closed"]
    /\ UNCHANGED <<messages, loading, wire>>

\* reader.read() rejects: the catch block
FailVariant ==
    /\ reqs[1].pc = "read"
    /\ messages' = CatchUpdateOf(reqs[1].variant, messages)
    /\ loading' = FALSE
    /\ reqs' = [reqs EXCEPT ![1].pc = "failed"]
    /\ UNCHANGED wire

NextVariants ==
    \/ DeliverVariant
    \/ CloseVariant
    \/ FailVariant

SpecVariants == InitVariants /\ [][NextVariants]_vars

\* the text a message shows, whichever field holds it
Shown(m) ==
    IF "answer" \in DOMAIN m THEN m.answer ELSE m.content

---------------------------------------------------------------------------
(* C36: in App.original.jsx and part_001 a data line whose payload is no   *)
(* JSON changes neither the messages nor loading and does not end the      *)
(* call, and the lines after it are applied as if it had not been there:   *)
(* no message takes the connectivity text because of it.                   *)
C36_MalformedSkippedPlain ==
    [][( /\ reqs[1].variant \in {"App.original", "part_001"}
         /\ reqs[1].pc = "read" )
       => /\ Applies(EvMalformed)
               => /\ messages' = messages
                  /\ loading' = loading
                  /\ reqs'[1].pc = "read"
          /\ LET v       == reqs[1].variant
                 with    == ProcessChunkOf(v, messages, loading, reqs[1],
                                           Frame(T_notjson) \o Frame(Ser(DocToken)))
                 without == ProcessChunkOf(v, messages, loading, reqs[1], Frame(Ser(DocToken)))
             IN  /\ with.messages = without.messages
                 /\ with.loading = without.loading
                 /\ with.req.pc = "read"]_vars

---------------------------------------------------------------------------
(* C37: in App.original.jsx, part_000 and part_001, when a response that   *)
(* delivered tokens or a Final, and no Done line, has closed, loading is   *)
(* false.                                                                  *)
C37_ClosureClearsLoading ==
    ( /\ reqs[1].pc = "closed"
      /\ Events # <<>>
      /\ \A i \in DOMAIN Events : Events[i] \in {DocToken, DocFinal} )
    => ~loading

---------------------------------------------------------------------------
(* C38: in part_001, when a read of the request is rejected, the message   *)
(* that was the placeholder of the turn carries the connectivity text, the *)
(* conversation has the length it had, and no message is streaming.        *)
C38_IntakeFailure ==
    [][( /\ reqs[1].variant = "part_001"
         /\ reqs[1].pc = "read"
         /\ reqs'[1].pc = "failed"
         /\ reqs'[1].reads = reqs[1].reads )
       => /\ Len(messages') = Len(messages)
          /\ Shown(messages'[Len(messages)]) = ConnectErrorShort
          /\ \A i \in DOMAIN messages' : ~IsStreaming(messages'[i])]_vars

---------------------------------------------------------------------------
(* C39: an error message that contains 'Error code: 429' is shown as the   *)
(* short rate-limit text, and the long text is shown only for an error     *)
(* message with another rate-limit indicator.                              *)
C39_ShortTextFor429 ==
    [][\A d \in {DocError, DocError429, DocErrorRate} :
         Applies(d) =>
           /\ Includes(d.error, S_ErrorCode429) => Text' = RateLimitShort
           /\ Text' = RateLimitLong
                => /\ ~Includes(d.error, S_ErrorCode429)
                   /\ HasRateLimitIndicator(d.error)]_vars

====
